---- MODULE Spec2Model ----
(***************************************************************************)
(* CAP error service: the error classifier (normalizeError), the           *)
(* structured error class (CustomError) with its persistence routine       *)
(* (logError) and external view (toCdsError), the e-mail notifier          *)
(* (createEmailNotifier) and the handler wrapper (handleErrors).           *)
(*                                                                         *)
(* JavaScript values are modelled as tagged records:                       *)
(*   [t |-> "undefined"], [t |-> "null"], [t |-> "boolean", b |-> b],      *)
(*   [t |-> "number", n |-> n], [t |-> "string", s |-> s],                 *)
(*   [t |-> "array", a |-> <<...>>],                                       *)
(*   [t |-> "object", cls |-> class name, props |-> own properties].       *)
(* A string is a sequence of atoms. An atom is one character, or a whole   *)
(* literal of the source that never takes part in prefix or substring      *)
(* matching ("Unknown failure"); the strings that are matched against      *)
(* ("HY", "3A", "SAP DBTech") are spelled character by character.          *)
(***************************************************************************)
EXTENDS Integers, Sequences, FiniteSets, TLC

VARIABLES
    options,   \* the options handleErrors was constructed with
    inv,       \* the invocations of the wrapped handler, by id
    norm,      \* a direct call of normalizeError: its arguments and result
    ctor       \* a structured error application code constructs and uses

vars == <<options, inv, norm, ctor>>

(***************************************************************************)
(* JavaScript values                                                       *)
(***************************************************************************)
Undefined == [t |-> "undefined"]

Null == [t |-> "null"]

Bool(b) == [t |-> "boolean", b |-> b]

Num(n) == [t |-> "number", n |-> n]

Str(s) == [t |-> "string", s |-> s]

Lit(a) == Str(<<a>>)

EmptyStr == Str(<<>>)

Arr(s) == [t |-> "array", a |-> s]

Obj(cls, props) == [t |-> "object", cls |-> cls, props |-> props]

NoProps == <<>>

\* The outcome of a call: a returned value or a thrown one.
Return(x) == [thrown |-> FALSE, val |-> x]

Throw(e) == [thrown |-> TRUE, val |-> e]

\* ToBoolean
Truthy(v) ==
    CASE v.t = "undefined" -> FALSE
      [] v.t = "null" -> FALSE
      [] v.t = "boolean" -> v.b
      [] v.t = "number" -> v.n # 0
      [] v.t = "string" -> v.s # <<>>
      [] OTHER -> TRUE

\* A variant of a || b that keeps every a except undefined and null (a ?? b)
OrNullish(a, b) == IF a.t \in {"undefined", "null"} THEN b ELSE a

\* a || b
Or(a, b) == IF Truthy(a) THEN a ELSE b

\* Property access is a TypeError on undefined and null.
Nullish(v) == v.t \in {"undefined", "null"}

\* o.p for a non-nullish o: an own property, or undefined.
Get(o, p) ==
    IF o.t = "object" /\ p \in DOMAIN o.props THEN o.props[p] ELSE Undefined

\* o?.p
OptGet(o, p) == IF Nullish(o) THEN Undefined ELSE Get(o, p)

StructuredClasses ==
    {"CustomError", "ValidationError", "AuthorizationError", "BusinessLogicError"}

RuntimeClasses == {"TypeError", "ReferenceError", "RangeError"}

ErrorClasses ==
    StructuredClasses \cup RuntimeClasses \cup {"Error", "SyntaxError"}

\* v instanceof C, for the classes the code tests
InstanceOf(v, classes) == v.t = "object" /\ v.cls \in classes

Digits == <<"0", "1", "2", "3", "4", "5", "6", "7", "8", "9">>

RECURSIVE NumToStr(_)
NumToStr(n) ==
    IF n < 0 THEN <<"-">> \o NumToStr(0 - n)
    ELSE IF n < 10 THEN <<Digits[n + 1]>>
    ELSE NumToStr(n \div 10) \o <<Digits[(n % 10) + 1]>>

\* String(v), as template literals and the Error constructor apply it
RECURSIVE JsToString(_), JoinComma(_)
JsToString(v) ==
    CASE v.t = "undefined" -> <<"undefined">>
      [] v.t = "null" -> <<"null">>
      [] v.t = "boolean" -> IF v.b THEN <<"true">> ELSE <<"false">>
      [] v.t = "number" -> NumToStr(v.n)
      [] v.t = "string" -> v.s
      [] v.t = "array" -> JoinComma(v.a)
      [] OTHER ->
           IF v.cls \in ErrorClasses
           THEN LET name == IF "name" \in DOMAIN v.props
                            THEN JsToString(v.props.name) ELSE <<v.cls>>
                    msg == IF "message" \in DOMAIN v.props
                           THEN JsToString(v.props.message) ELSE <<>>
                IN  IF msg = <<>> THEN name ELSE name \o <<": ">> \o msg
           ELSE <<"[object Object]">>

\* Array.prototype.join(","): undefined and null elements are empty
JoinComma(xs) ==
    IF xs = <<>> THEN <<>>
    ELSE (IF Nullish(xs[1]) THEN <<>> ELSE JsToString(xs[1]))
         \o (IF Len(xs) = 1 THEN <<>> ELSE <<",">> \o JoinComma(Tail(xs)))

\* s.startsWith(p)
StartsWith(s, p) == Len(s) >= Len(p) /\ SubSeq(s, 1, Len(p)) = p

\* s.includes(p)
Includes(s, p) ==
    \E i \in 1..(Len(s) - Len(p) + 1) : SubSeq(s, i, i + Len(p) - 1) = p

\* The decimal spelling of an array index, as a property key
RECURSIVE IndexKey(_)
IndexKey(n) ==
    IF n < 10 THEN Digits[n + 1] ELSE IndexKey(n \div 10) \o Digits[(n % 10) + 1]

\* The own enumerable properties an object spread copies: message and stack
\* of an Error are own but not enumerable; a string spreads its characters,
\* an array its elements; other primitives spread nothing.
SpreadProps(v) ==
    CASE v.t = "object" ->
           IF v.cls \in ErrorClasses
           THEN [k \in (DOMAIN v.props) \ {"message", "stack"} |-> v.props[k]]
           ELSE v.props
      [] v.t = "string" ->
           [k \in {IndexKey(i - 1) : i \in 1..Len(v.s)} |->
               Str(<<v.s[CHOOSE i \in 1..Len(v.s) : IndexKey(i - 1) = k]>>)]
      [] v.t = "array" ->
           [k \in {IndexKey(i - 1) : i \in 1..Len(v.a)} |->
               v.a[CHOOSE i \in 1..Len(v.a) : IndexKey(i - 1) = k]]
      [] OTHER -> NoProps

\* A variant of the merge in which the earlier spread keeps a shared key
MergeFirstWins(a, b) == a @@ b

\* { ...a, ...b }: the later spread wins on a shared key
Merge(a, b) == b @@ a

TypeErrorOf(msg) ==
    Obj("TypeError", [message |-> Lit(msg), stack |-> Lit("TypeError: " \o msg)])

(***************************************************************************)
(* Stack traces: a string whose lines are separated by the atom "\n"       *)
(***************************************************************************)
NL == "\n"

RECURSIVE SplitLines(_)
SplitLines(s) ==
    IF \A i \in 1..Len(s) : s[i] # NL THEN <<s>>
    ELSE LET i == CHOOSE k \in 1..Len(s) :
                      s[k] = NL /\ \A j \in 1..(k - 1) : s[j] # NL
         IN  <<SubSeq(s, 1, i - 1)>> \o SplitLines(SubSeq(s, i + 1, Len(s)))

RECURSIVE JoinLines(_)
JoinLines(ls) ==
    IF ls = <<>> THEN <<>>
    ELSE IF Len(ls) = 1 THEN ls[1]
    ELSE ls[1] \o <<NL>> \o JoinLines(Tail(ls))

\* The frames the constructor removes from an inherited stack
InternalFrame(line) ==
    \/ Includes(line, <<"normalizeError">>)
    \/ Includes(line, <<"toCdsError">>)
    \/ Includes(line, <<"@custom/error-service">>)

KeptFrame(line) == ~InternalFrame(line)

\* [stackLines[0], ...filtered.slice(1)].join("\n")
FilterStack(stack) ==
    LET stackLines == SplitLines(stack)
        filtered == SelectSeq(stackLines, KeptFrame)
    IN  JoinLines(<<stackLines[1]>> \o
                  (IF filtered = <<>> THEN <<>> ELSE Tail(filtered)))

\* Error.captureStackTrace(this, this.constructor): the header from the
\* error's name and message, then the frames of the constructor's caller.
CaptureStackTrace(name, message, frames) ==
    (IF message = <<>> THEN <<name>> ELSE <<name, ": ">> \o message)
        \o <<NL>> \o frames

(***************************************************************************)
(* CustomError: the constructor, and the three variants                    *)
(***************************************************************************)
\* The snapshot of the request the constructor merges into internal
RequestContext(req) ==
    [data |-> Get(req, "data"),
     user |-> Get(req, "user"),
     event |-> Get(req, "event"),
     url |-> Or(OptGet(OptGet(Get(req, "_"), "req"), "originalUrl"), EmptyStr),
     method |-> Or(OptGet(OptGet(Get(req, "_"), "req"), "method"), EmptyStr)]

\* this.internal = { ...(internal || {}), ...(req ? {...} : {}) }
BuildInternal(internal, req) ==
    Obj("Object",
        Merge(SpreadProps(Or(internal, Obj("Object", NoProps))),
              IF Truthy(req) THEN RequestContext(req) ELSE NoProps))

\* super(message): an undefined message leaves the inherited "", any other
\* value is converted to a string
ErrorMessage(message) ==
    IF message.t = "undefined" THEN EmptyStr ELSE Str(JsToString(message))

\* new cls(params) running the CustomError constructor body; frames are the
\* stack frames of the caller. The parameter object is destructured, which
\* throws on undefined and null.
CustomErrorNew(cls, params, frames) ==
    IF Nullish(params)
    THEN Throw(TypeErrorOf("Cannot destructure property 'message'"))
    ELSE
    LET message == Get(params, "message")
        internal == Get(params, "internal")
        req == Get(params, "req")
        msg == ErrorMessage(message)
        inherits == InstanceOf(internal, ErrorClasses)
                        /\ Truthy(Get(internal, "stack"))
        fields == [name |-> Lit(cls),
                   message |-> msg,
                   status |-> Or(Get(params, "status"), Num(500)),
                   code |-> Or(Get(params, "code"), Lit("GENERIC_ERROR")),
                   target |-> Or(Get(params, "target"), Null),
                   details |-> Or(Get(params, "details"), Null),
                   module |-> Or(Get(params, "module"), Null),
                   internal |-> BuildInternal(internal, req)]
    IN  IF inherits /\ Get(internal, "stack").t # "string"
        THEN Throw(TypeErrorOf("internal.stack.split is not a function"))
        ELSE Return(Obj(cls, fields @@
                [stack |-> IF inherits
                           THEN Str(FilterStack(Get(internal, "stack").s))
                           ELSE Str(CaptureStackTrace(cls, msg.s, frames))]))

\* new ValidationError(params); the parameter defaults to {}
ValidationErrorNew(params, frames) ==
    IF params.t = "null"
    THEN Throw(TypeErrorOf("Cannot destructure property 'message'"))
    ELSE
    LET p == IF params.t = "undefined" THEN Obj("Object", NoProps) ELSE params
    IN  CustomErrorNew("ValidationError",
            Obj("Object",
                [message |-> Get(p, "message"),
                 status |-> Or(Get(p, "status"), Num(400)),
                 code |-> Lit("VALIDATION_ERR"),
                 module |-> Get(p, "module"),
                 internal |-> Or(Get(p, "internal"),
                     Str(<<"I", "n", "t", "e", "r", "n", "a", "l">>)),
                 req |-> Get(p, "req")]),
            frames)

\* A variant of AuthorizationError whose default status is 403
AuthorizationErrorNewForbidden(params, frames) ==
    LET p == IF Nullish(params) THEN Obj("Object", NoProps) ELSE params
    IN  CustomErrorNew("AuthorizationError",
            Obj("Object",
                [message |-> Or(Get(p, "message"),
                     Lit("You are not authorized to perform this action")),
                 status |-> Or(Get(p, "status"), Num(403)),
                 module |-> Get(p, "module"),
                 code |-> Or(Get(p, "code"), Lit("AUTHORIZATION_ERR")),
                 internal |-> Get(p, "internal"),
                 req |-> Get(p, "req"),
                 details |-> Get(p, "details"),
                 target |-> Get(p, "target")]),
            frames)

\* new AuthorizationError(params); the parameter defaults to {}
AuthorizationErrorNew(params, frames) ==
    IF params.t = "null"
    THEN Throw(TypeErrorOf("Cannot destructure property 'message'"))
    ELSE
    LET p == IF params.t = "undefined" THEN Obj("Object", NoProps) ELSE params
    IN  CustomErrorNew("AuthorizationError",
            Obj("Object",
                [message |-> Or(Get(p, "message"),
                     Lit("You are not authorized to perform this action")),
                 status |-> Or(Get(p, "status"), Num(401)),
                 module |-> Get(p, "module"),
                 code |-> Or(Get(p, "code"), Lit("AUTHORIZATION_ERR")),
                 internal |-> Get(p, "internal"),
                 req |-> Get(p, "req"),
                 details |-> Get(p, "details"),
                 target |-> Get(p, "target")]),
            frames)

\* new BusinessLogicError(params); the parameter defaults to {}
BusinessLogicErrorNew(params, frames) ==
    IF params.t = "null"
    THEN Throw(TypeErrorOf("Cannot destructure property 'message'"))
    ELSE
    LET p == IF params.t = "undefined" THEN Obj("Object", NoProps) ELSE params
    IN  CustomErrorNew("BusinessLogicError",
            Obj("Object",
                [message |-> Or(Get(p, "message"),
                     Lit("Business rule violation occurred")),
                 status |-> Or(Get(p, "status"), Num(422)),
                 code |-> Or(Get(p, "code"), Lit("BUSINESS_ERR")),
                 module |-> Get(p, "module"),
                 req |-> Get(p, "req"),
                 internal |-> Get(p, "internal"),
                 details |-> Get(p, "details"),
                 target |-> Get(p, "target")]),
            frames)

(***************************************************************************)
(* normalizeError(err, module, req)                                        *)
(***************************************************************************)
CodeHY == <<"H", "Y">>

Code3A == <<"3", "A">>

MarkerSapDbTech == <<"S", "A", "P", " ", "D", "B", "T", "e", "c", "h">>

\* err.code && err.message && (err.code.startsWith("HY") ||
\*     err.code.startsWith("3A") || err.message.includes("SAP DBTech"))
isHanaError(err) ==
    IF Nullish(err)
    THEN Throw(TypeErrorOf("Cannot read properties of " \o err.t))
    ELSE
    LET code == Get(err, "code")
        message == Get(err, "message")
    IN  IF ~Truthy(code) THEN Return(code)
        ELSE IF ~Truthy(message) THEN Return(message)
        ELSE IF code.t # "string"
        THEN Throw(TypeErrorOf("err.code.startsWith is not a function"))
        ELSE IF StartsWith(code.s, CodeHY) THEN Return(Bool(TRUE))
        ELSE IF StartsWith(code.s, Code3A) THEN Return(Bool(TRUE))
        ELSE IF message.t = "string"
        THEN Return(Bool(Includes(message.s, MarkerSapDbTech)))
        ELSE IF message.t = "array"
        THEN Return(Bool(\E i \in 1..Len(message.a) :
                             message.a[i] = Str(MarkerSapDbTech)))
        ELSE Throw(TypeErrorOf("err.message.includes is not a function"))

\* err.response && err.response.status
isCpiHttpError(err) ==
    IF Nullish(err)
    THEN Throw(TypeErrorOf("Cannot read properties of " \o err.t))
    ELSE
    LET response == Get(err, "response")
    IN  IF ~Truthy(response) THEN Return(response)
        ELSE Return(Get(response, "status"))

\* The frames of a CustomError constructed inside normalizeError
NormalizeFrames == <<"    at ", "normalizeError", " (lib/core/normalizeError.js)">>

\* A variant of normalizeError that applies the fallback rule to every value
normalizeErrorFallbackOnly(err, module, req) ==
    CustomErrorNew("CustomError",
        Obj("Object",
            [message |-> Or(Get(err, "message"), Lit("Unknown failure")),
             status |-> Num(500), code |-> Lit("UNKNOWN_ERR"),
             module |-> module, internal |-> err, req |-> req]),
        NormalizeFrames)

normalizeError(err, module, req) ==
    IF InstanceOf(err, StructuredClasses) THEN Return(err)
    ELSE IF InstanceOf(err, {"SyntaxError"})
    THEN CustomErrorNew("CustomError",
             Obj("Object",
                 [message |-> Lit("Invalid Syntax Encountered"),
                  status |-> Num(500), code |-> Lit("SYNTAX_ERR"),
                  module |-> module, internal |-> err, req |-> req]),
             NormalizeFrames)
    ELSE IF InstanceOf(err, RuntimeClasses)
    THEN CustomErrorNew("CustomError",
             Obj("Object",
                 [message |-> Lit("Unexpected server error"),
                  status |-> Num(500), code |-> Lit("RUNTIME_ERR"),
                  module |-> module, internal |-> err, req |-> req]),
             NormalizeFrames)
    ELSE IF isHanaError(err).thrown THEN isHanaError(err)
    ELSE IF Truthy(isHanaError(err).val)
    THEN CustomErrorNew("CustomError",
             Obj("Object",
                 [message |-> Lit("Database execution failed"),
                  status |-> Num(500), code |-> Lit("HANA_DB_ERR"),
                  module |-> module, internal |-> err, req |-> req]),
             NormalizeFrames)
    ELSE IF isCpiHttpError(err).thrown THEN isCpiHttpError(err)
    ELSE IF Truthy(isCpiHttpError(err).val)
    THEN LET response == Get(err, "response")
         IN  CustomErrorNew("CustomError",
                 Obj("Object",
                     [message |-> Str(<<"CPI request failed with status ">>
                                      \o JsToString(Get(response, "status"))),
                      status |-> Get(response, "status"),
                      code |-> Lit("CPI_HTTP_ERR"),
                      module |-> module,
                      internal |-> Obj("Object",
                          [status |-> Get(response, "status"),
                           data |-> Get(response, "data"),
                           headers |-> Get(response, "headers")]),
                      req |-> req]),
                 NormalizeFrames)
    ELSE CustomErrorNew("CustomError",
             Obj("Object",
                 [message |-> Or(Get(err, "message"), Lit("Unknown failure")),
                  status |-> Num(500), code |-> Lit("UNKNOWN_ERR"),
                  module |-> module, internal |-> err, req |-> req]),
             NormalizeFrames)

\* A variant of toCdsError that also copies the diagnostic payload
toCdsErrorWithInternal(e) ==
    Obj("Object",
        [message |-> Get(e, "message"),
         status |-> Get(e, "status"),
         code |-> Get(e, "code"),
         target |-> Get(e, "target"),
         details |-> Get(e, "details"),
         internal |-> Get(e, "internal")])

\* toCdsError(): the external view of a CustomError
toCdsError(e) ==
    Obj("Object",
        [message |-> Get(e, "message"),
         status |-> Get(e, "status"),
         code |-> Get(e, "code"),
         target |-> Get(e, "target"),
         details |-> Get(e, "details")])

(***************************************************************************)
(* JSON.stringify, for values without cycles                               *)
(***************************************************************************)
\* Own properties are written in insertion order; the model keeps no order,
\* so keys are written in this fixed one (array indices first, as in JS).
KeyOrder ==
    <<"0", "1", "2", "3", "4", "5", "6", "7", "8", "9",
      "name", "message", "status", "code", "target", "details", "module",
      "internal", "err", "req", "response", "headers", "server", "foo", "email",
      "id",
      "data", "user", "event", "url", "method", "originalUrl", "_", "stack">>

RECURSIVE JsonStringify(_), JsonMembers(_, _), JsonElements(_)
JsonStringify(v) ==
    CASE v.t = "string" -> <<"\"">> \o v.s \o <<"\"">>
      [] v.t = "number" -> NumToStr(v.n)
      [] v.t = "boolean" -> IF v.b THEN <<"true">> ELSE <<"false">>
      [] v.t = "array" -> <<"[">> \o JsonElements(v.a) \o <<"]">>
      [] v.t = "object" ->
           LET props == SpreadProps(v)
               Written(key) == key \in DOMAIN props
                                /\ props[key].t \notin {"undefined", "function"}
           IN  <<"{">> \o JsonMembers(props, SelectSeq(KeyOrder, Written))
                   \o <<"}">>
      [] OTHER -> <<"null">>

\* The members of the given keys; undefined and function values were left out
JsonMembers(props, keys) ==
    IF keys = <<>> THEN <<>>
    ELSE <<"\"", keys[1], "\":">> \o JsonStringify(props[keys[1]])
         \o (IF Len(keys) = 1 THEN <<>>
             ELSE <<",">> \o JsonMembers(props, Tail(keys)))

JsonElements(xs) ==
    IF xs = <<>> THEN <<>>
    ELSE JsonStringify(xs[1])
         \o (IF Len(xs) = 1 THEN <<>> ELSE <<",">> \o JsonElements(Tail(xs)))

(***************************************************************************)
(* logError: the row it inserts                                            *)
(***************************************************************************)
\* A variant of the payload without the "|| {}" defaults of details and
\* internal
LogPayloadNoDefaults(e) ==
    Obj("Object",
        [crtdt |-> Lit("<date>"),
         crttm |-> Lit("<time>"),
         message |-> Get(e, "message"),
         status |-> Get(e, "status"),
         code |-> Get(e, "code"),
         target |-> Get(e, "target"),
         details |-> Str(JsonStringify(Get(e, "details"))),
         module |-> Get(e, "module"),
         internal |-> Str(JsonStringify(Get(e, "internal"))),
         stack |-> Get(e, "stack")])

\* The payload of the INSERT; date and time come from the clock
LogPayload(e) ==
    Obj("Object",
        [crtdt |-> Lit("<date>"),
         crttm |-> Lit("<time>"),
         message |-> Get(e, "message"),
         status |-> Get(e, "status"),
         code |-> Get(e, "code"),
         target |-> Get(e, "target"),
         details |-> Str(JsonStringify(Or(Get(e, "details"), Obj("Object", NoProps)))),
         module |-> Get(e, "module"),
         internal |-> Str(JsonStringify(Or(Get(e, "internal"), Obj("Object", NoProps)))),
         stack |-> Get(e, "stack")])

(***************************************************************************)
(* createEmailNotifier and the built-in body                               *)
(***************************************************************************)
\* The closure createEmailNotifier returns, with the configuration it keeps
Notifier(sendEmailFn, emailBodyBuilderFn, TO, CC) ==
    [t |-> "function", name |-> "notifyError",
     cfg |-> [sendEmailFn |-> sendEmailFn,
              emailBodyBuilderFn |-> emailBodyBuilderFn, TO |-> TO, CC |-> CC]]

\* buildErrorEmailBody({ env, error, internal }): the HTML, as the sequence
\* of its labelled cells
buildErrorEmailBody(env, error, internal) ==
    LET reqMeta == Or(internal, Obj("Object", NoProps))
        stack == Get(error, "stack")
    IN  Str(<<"Timestamp: ", "<now>", "Environment: ">> \o JsToString(env)
            \o <<"Message: ">> \o JsToString(Or(Get(error, "message"), EmptyStr))
            \o <<"Status: ">> \o JsToString(Get(error, "status"))
            \o <<"Error Code: ">> \o JsToString(Get(error, "code"))
            \o <<"Target: ">> \o JsToString(Or(Get(error, "target"), EmptyStr))
            \o <<"Module: ">> \o JsToString(Or(Get(error, "module"), EmptyStr))
            \o <<"URL: ">> \o JsToString(Or(Get(reqMeta, "url"), EmptyStr))
            \o <<"Method: ">> \o JsToString(Or(Get(reqMeta, "method"), EmptyStr))
            \o <<"Event: ">> \o JsToString(Or(Get(reqMeta, "event"), EmptyStr))
            \o <<"User: ">>
            \o JsToString(Or(OptGet(Get(reqMeta, "user"), "id"), EmptyStr))
            \o <<"Error Details: ">>
            \o JsonStringify(Or(Get(error, "details"), Obj("Object", NoProps)))
            \o <<"Internal Metadata: ">> \o JsonStringify(reqMeta)
            \o <<"Stack Trace: ">>
            \o (IF stack.t = "string" THEN stack.s
                ELSE JsonStringify(Or(stack, Obj("Object", NoProps)))))

\* What createEmailNotifier's module binds to buildErrorEmailBody:
\* require("./templates/buildErrorEmailBody") is the exports object of a file
\* that assigns no export, an empty object
BuiltInFormatter == Obj("Object", NoProps)

\* const body = emailBodyBuilderFn ? emailBodyBuilderFn({...})
\*                                 : buildErrorEmailBody({...}):
\* the custom builder's body, or the outcome of calling the built-in binding
NotifierBody(cfg, env, error) ==
    IF cfg.emailBodyBuilderFn
    THEN Return(Lit("<custom body>"))
    ELSE IF BuiltInFormatter.t = "function"
    THEN Return(buildErrorEmailBody(env, error, Get(error, "internal")))
    ELSE Throw(TypeErrorOf("buildErrorEmailBody is not a function"))

\* The payload handed to sendEmailFn
EmailPayload(cfg, env, body) ==
    Obj("Object",
        [subject |-> Str(<<"Exception occurred in ">> \o JsToString(env)),
         body |-> body, to |-> cfg.TO, cc |-> cfg.CC])

\* emailPayload.to?.length > 0
HasRecipients(emailPayload) ==
    LET to == Get(emailPayload, "to")
    IN  \/ to.t = "array" /\ Len(to.a) > 0
        \/ to.t = "string" /\ Len(to.s) > 0

(***************************************************************************)
(* The values the environment supplies                                     *)
(***************************************************************************)
\* The stack of an error thrown in a handler and passed through the library
StackOf(header) ==
    Str(header \o
        <<NL, "    at ", "handler", " (srv/service.js)", NL,
          "    at ", "normalizeError", " (lib/core/normalizeError.js)", NL,
          "    at ", "process", " (node:internal)">>)

NativeError(cls, msg, extra) ==
    Obj(cls, extra @@ [message |-> Str(msg),
                       stack |-> StackOf(<<cls, ": ">> \o msg)])

MsgBoom == <<"b", "o", "o", "m">>

MsgDbTech == <<"S", "A", "P", " ", "D", "B", "T", "e", "c", "h", " ", "J", "D", "B", "C">>

CodeStrHY000 == Str(<<"H", "Y", "0", "0", "0">>)

CodeStr3A001 == Str(<<"3", "A", "0", "0", "1">>)

CodeStrOther == Str(<<"E", "4", "2">>)

HttpResponse(status) ==
    Obj("Object",
        [status |-> status,
         data |-> Obj("Object", [message |-> Lit("upstream down")]),
         headers |-> Obj("Object", [server |-> Lit("cpi")])])

\* Structured errors application code throws
ThrownCustomError ==
    CustomErrorNew("CustomError",
        Obj("Object",
            [message |-> Lit("Order cannot be cancelled"),
             status |-> Num(409), code |-> Lit("ORDER_ERR"),
             target |-> Lit("OrderStatus"),
             details |-> Arr(<<Obj("Object",
                 [message |-> Lit("Status = SHIPPED"),
                  target |-> Lit("OrderStatus"), code |-> Lit("SHIPPED")])>>),
             module |-> Lit("OrderService"),
             internal |-> Obj("Object", [id |-> Num(7)])]),
        <<"    at ", "handler", " (srv/service.js)">>).val

ThrownValidationError ==
    ValidationErrorNew(Obj("Object", [message |-> Lit("Email is required")]),
        <<"    at ", "handler", " (srv/service.js)">>).val

ThrownAuthorizationError ==
    AuthorizationErrorNew(Undefined,
        <<"    at ", "handler", " (srv/service.js)">>).val

ThrownBusinessLogicError ==
    BusinessLogicErrorNew(
        Obj("Object", [message |-> Lit("Order cannot be cancelled"),
                       module |-> Lit("OrderService")]),
        <<"    at ", "handler", " (srv/service.js)">>).val

StructuredValues ==
    {ThrownCustomError, ThrownValidationError, ThrownAuthorizationError,
     ThrownBusinessLogicError}

NativeErrors ==
    {NativeError("TypeError", <<"x is not a function">>, NoProps),
     NativeError("ReferenceError", <<"y is not defined">>, NoProps),
     NativeError("RangeError", <<"Invalid array length">>, NoProps),
     NativeError("SyntaxError", <<"Unexpected token">>, NoProps),
     NativeError("SyntaxError", <<"Unexpected token">>, [code |-> CodeStrHY000]),
     NativeError("SyntaxError", <<"Unexpected token">>,
         [response |-> HttpResponse(Num(502))]),
     NativeError("TypeError", <<"x is not a function">>,
         [code |-> CodeStrHY000]),
     NativeError("RangeError", <<"Invalid array length">>,
         [response |-> HttpResponse(Num(503))]),
     NativeError("ReferenceError", MsgDbTech,
         [code |-> Num(42), response |-> HttpResponse(Num(503))]),
     NativeError("Error", MsgBoom, NoProps),
     NativeError("Error", MsgBoom, [code |-> CodeStrHY000]),
     NativeError("Error", MsgDbTech, [code |-> CodeStrOther]),
     NativeError("Error", MsgDbTech, NoProps),
     NativeError("Error", MsgBoom, [code |-> Num(42)]),
     NativeError("Error", MsgBoom, [response |-> HttpResponse(Num(503))]),
     NativeError("Error", MsgBoom,
         [code |-> CodeStr3A001, response |-> HttpResponse(Num(502))])}

PlainObjects ==
    {Obj("Object", [foo |-> Lit("bar")]),
     Obj("Object", [code |-> CodeStr3A001, message |-> Str(MsgBoom)]),
     Obj("Object", [code |-> Num(42), message |-> Str(MsgBoom)]),
     Obj("Object", [code |-> Num(42)]),
     Obj("Object", [code |-> CodeStrHY000]),
     Obj("Object", [message |-> Str(MsgDbTech)]),
     Obj("Object", [code |-> CodeStrOther, message |-> Str(MsgDbTech)]),
     Obj("Object", [response |-> HttpResponse(Num(404))]),
     Obj("Object", [response |-> HttpResponse(Num(0)), message |-> Str(MsgBoom)]),
     Obj("Object", [response |-> HttpResponse(Lit("503"))])}

Primitives == {Str(MsgBoom), EmptyStr, Num(42), Num(0), Null, Undefined}

\* Every value a handler can throw, or normalizeError can be given
RawValues == StructuredValues \cup NativeErrors \cup PlainObjects \cup Primitives

\* The values a handler returns
ReturnValues == {Undefined, Lit("OK"), Num(42)}

ModuleValues == {Undefined, Lit("DSM")}

EnvValues == {Undefined, Lit("PROD")}

\* A CAP request: with the HTTP context req._.req, or without (an event)
HttpRequest ==
    Obj("Request",
        [data |-> Obj("Object", [email |-> Lit("abc")]),
         user |-> Obj("Object", [id |-> Lit("admin")]),
         event |-> Lit("createUser")]
        @@ ("_" :> Obj("Object", [req |-> Obj("IncomingMessage",
                  [originalUrl |-> Lit("/user/create"), method |-> Lit("POST")])])))

EventRequest ==
    Obj("Request",
        [data |-> Obj("Object", [id |-> Num(7)]),
         user |-> Obj("Object", [id |-> Lit("system")]),
         event |-> Lit("orderShipped")])

Requests == {HttpRequest, EventRequest}

RecipientsTO == Arr(<<Lit("alerts@yourorg.com")>>)

RecipientsCC == Arr(<<Lit("lead@yourorg.com")>>)

\* options.notify: absent, or a notifier from createEmailNotifier
NotifyValues ==
    {Undefined,
     Notifier(FALSE, FALSE, RecipientsTO, RecipientsCC),
     Notifier(TRUE, FALSE, Arr(<<>>), Arr(<<>>)),
     Notifier(TRUE, TRUE, Arr(<<>>), RecipientsCC),
     Notifier(TRUE, FALSE, RecipientsTO, RecipientsCC),
     Notifier(TRUE, TRUE, RecipientsTO, RecipientsCC)}

CdsValues == {Undefined, Obj("cds", NoProps)}

TableNameValues == {Undefined, Lit("ERRORLOGS")}

(***************************************************************************)
(* handleErrors(fn, options): one invocation of the wrapped handler.       *)
(* pc is the position in the async function; every call of a collaborator  *)
(* (fn, cds, the transaction, the notifier's builder and transport) is a   *)
(* step, and its outcome is the environment's choice.                      *)
(***************************************************************************)
Idle ==
    [pc |-> "idle", req |-> Undefined, fnArgs |-> <<>>,
     fnResult |-> Return(Undefined),
     normalized |-> Undefined, tx |-> "none", calls |-> <<>>, rows |-> <<>>,
     mails |-> <<>>, errors |-> <<>>, reported |-> <<>>, faults |-> {},
     built |-> <<>>, outcome |-> Return(Undefined)]

NormOff ==
    [phase |-> "off", err |-> Undefined, module |-> Undefined,
     req |-> Undefined, form |-> "none", result |-> Return(Undefined),
     module2 |-> Undefined, req2 |-> Undefined, second |-> Return(Undefined)]

CtorOff ==
    [phase |-> "off", how |-> "none", params |-> Undefined,
     result |-> Return(Undefined), calls |-> <<>>, row |-> Undefined,
     view |-> Undefined, mail |-> Undefined, req |-> Undefined]

FaultError(what) == Obj("Error", [message |-> Lit(what \o " failed")])

\* A variant of the wrapper's call that passes the arguments positionally
WrapperNormalizePositional(err, module, req) == normalizeError(err, module, req)

\* The wrapper's call: normalizeError({ err, module, req })
WrapperNormalize(err, module, req) ==
    normalizeError(Obj("Object", [err |-> err, module |-> module, req |-> req]),
                   Undefined, Undefined)

\* A variant of the catch block that alerts before it logs
NextAfterCatchNotifyFirst(opts) ==
    IF Truthy(opts.notify) THEN "notify"
    ELSE IF Truthy(opts.cds) /\ Truthy(opts.tableName) THEN "logError"
    ELSE "report"

\* After the catch block has classified: if (cds && tableName) logError first
NextAfterCatch(opts) ==
    IF Truthy(opts.cds) /\ Truthy(opts.tableName) THEN "logError"
    ELSE IF Truthy(opts.notify) THEN "notify"
    ELSE "report"

\* After logError has returned: if (notify) the notifier, then req.error
NextAfterLog(opts) == IF Truthy(opts.notify) THEN "notify" ELSE "report"

\* The wrapped handler is called with req and calls fn(req)
Invoke(i, req) ==
    /\ inv[i].pc = "idle"
    /\ inv' = [inv EXCEPT ![i] =
                  [@ EXCEPT !.pc = "fn", !.req = req, !.fnArgs = @ \o <<req>>,
                            !.calls = @ \o <<"fn">>]]
    /\ UNCHANGED <<options, norm, ctor>>

\* A variant of the success path that awaits fn(req) without returning it
FnReturnsDropped(i, val) ==
    /\ inv[i].pc = "fn"
    /\ inv' = [inv EXCEPT ![i] =
                  [@ EXCEPT !.pc = "resolved", !.fnResult = Return(val),
                            !.outcome = Return(Undefined)]]
    /\ UNCHANGED <<options, norm, ctor>>

\* return await fn(req)
FnReturns(i, val) ==
    /\ inv[i].pc = "fn"
    /\ inv' = [inv EXCEPT ![i] =
                  [@ EXCEPT !.pc = "resolved", !.fnResult = Return(val),
                            !.outcome = Return(val)]]
    /\ UNCHANGED <<options, norm, ctor>>

\* fn throws or rejects with v: the catch block classifies it
FnThrows(i, v) ==
    /\ inv[i].pc = "fn"
    /\ LET n == WrapperNormalize(v, options.module, inv[i].req)
       IN  inv' = [inv EXCEPT ![i] =
                      IF n.thrown
                      THEN [@ EXCEPT !.pc = "rejected", !.fnResult = Throw(v),
                                     !.calls = @ \o <<"normalizeError">>,
                                     !.outcome = Throw(n.val)]
                      ELSE [@ EXCEPT !.pc = NextAfterCatch(options),
                                     !.fnResult = Throw(v),
                                     !.calls = @ \o <<"normalizeError">>,
                                     !.normalized = n.val]]
    /\ UNCHANGED <<options, norm, ctor>>

\* logError: tx = cds.transaction(); a throw is caught and logged, and the
\* finally block finds tx null
LogTransaction(i, ok) ==
    /\ inv[i].pc = "logError"
    /\ inv' = [inv EXCEPT ![i] =
                  IF ok
                  THEN [@ EXCEPT !.pc = "tx_begin", !.tx = "open",
                                 !.calls = @ \o <<"logError", "cds.transaction">>]
                  ELSE [@ EXCEPT !.pc = NextAfterLog(options),
                                 !.calls = @ \o <<"logError", "cds.transaction",
                                                  "console.error", "logError.return">>,
                                 !.errors = @ \o <<FaultError("cds.transaction")>>,
                                 !.faults = @ \cup {"cds.transaction"}]]
    /\ UNCHANGED <<options, norm, ctor>>

\* await tx.begin()
TxBegin(i, ok) ==
    /\ inv[i].pc = "tx_begin"
    /\ inv' = [inv EXCEPT ![i] =
                  IF ok
                  THEN [@ EXCEPT !.pc = IF Truthy(options.tableName)
                                           /\ Truthy(options.cds)
                                        THEN "tx_run" ELSE "tx_commit",
                                 !.calls = @ \o <<"tx.begin">>]
                  ELSE [@ EXCEPT !.pc = "tx_finally",
                                 !.calls = @ \o <<"tx.begin", "console.error">>,
                                 !.errors = @ \o <<FaultError("tx.begin")>>,
                                 !.faults = @ \cup {"tx.begin"}]]
    /\ UNCHANGED <<options, norm, ctor>>

\* The payload is built (JSON.stringify throws on a cyclic internal) and
\* await tx.run(INSERT.into(tableName).entries(payload))
TxRun(i, how) ==
    /\ inv[i].pc = "tx_run"
    /\ inv' = [inv EXCEPT ![i] =
                  CASE how = "ok" ->
                         [@ EXCEPT !.pc = "tx_commit",
                                   !.calls = @ \o <<"tx.run">>,
                                   !.rows = @ \o <<LogPayload(inv[i].normalized)>>]
                    [] how = "serialize" ->
                         [@ EXCEPT !.pc = "tx_finally",
                                   !.calls = @ \o <<"console.error">>,
                                   !.errors = @ \o <<FaultError("JSON.stringify")>>,
                                   !.faults = @ \cup {"serialize"}]
                    [] OTHER ->
                         [@ EXCEPT !.pc = "tx_finally",
                                   !.calls = @ \o <<"tx.run", "console.error">>,
                                   !.errors = @ \o <<FaultError("tx.run")>>,
                                   !.faults = @ \cup {"tx.run"}]]
    /\ UNCHANGED <<options, norm, ctor>>

\* A variant in which a successful commit ends logError, the finally block
\* committing only what the try body left uncommitted
TxCommitOnce(i, ok) ==
    /\ inv[i].pc = "tx_commit"
    /\ inv' = [inv EXCEPT ![i] =
                  IF ok
                  THEN [@ EXCEPT !.pc = NextAfterLog(options), !.tx = "committed",
                                 !.calls = @ \o <<"tx.commit", "logError.return">>]
                  ELSE [@ EXCEPT !.pc = "tx_finally",
                                 !.calls = @ \o <<"tx.commit", "console.error">>,
                                 !.errors = @ \o <<FaultError("tx.commit")>>,
                                 !.faults = @ \cup {"tx.commit"}]]
    /\ UNCHANGED <<options, norm, ctor>>

\* await tx.commit(), the last statement of the try body
TxCommit(i, ok) ==
    /\ inv[i].pc = "tx_commit"
    /\ inv' = [inv EXCEPT ![i] =
                  IF ok
                  THEN [@ EXCEPT !.pc = "tx_finally", !.tx = "committed",
                                 !.calls = @ \o <<"tx.commit">>]
                  ELSE [@ EXCEPT !.pc = "tx_finally",
                                 !.calls = @ \o <<"tx.commit", "console.error">>,
                                 !.errors = @ \o <<FaultError("tx.commit")>>,
                                 !.faults = @ \cup {"tx.commit"}]]
    /\ UNCHANGED <<options, norm, ctor>>

\* A variant of the finally block that rolls back when the try body failed
TxFinallyRollback(i, ok) ==
    /\ inv[i].pc = "tx_finally"
    /\ LET op == IF inv[i].errors = <<>> THEN "tx.commit" ELSE "tx.rollback"
       IN  inv' = [inv EXCEPT ![i] =
                  IF ok
                  THEN [@ EXCEPT !.pc = NextAfterLog(options),
                                 !.tx = IF op = "tx.commit" THEN "committed"
                                        ELSE "rolledback",
                                 !.calls = @ \o <<op, "logError.return">>]
                  ELSE [@ EXCEPT !.pc = "rejected",
                                 !.calls = @ \o <<op>>,
                                 !.faults = @ \cup {"finally.commit"},
                                 !.outcome = Throw(FaultError(op))]]
    /\ UNCHANGED <<options, norm, ctor>>

\* finally { if (tx) await tx.commit() }: a rejection here leaves logError,
\* and the wrapper's catch block with it
TxFinally(i, ok) ==
    /\ inv[i].pc = "tx_finally"
    /\ inv' = [inv EXCEPT ![i] =
                  IF ok
                  THEN [@ EXCEPT !.pc = NextAfterLog(options), !.tx = "committed",
                                 !.calls = @ \o <<"tx.commit", "logError.return">>]
                  ELSE [@ EXCEPT !.pc = "rejected",
                                 !.calls = @ \o <<"tx.commit">>,
                                 !.faults = @ \cup {"finally.commit"},
                                 !.outcome = Throw(FaultError("tx.commit"))]]
    /\ UNCHANGED <<options, norm, ctor>>

\* await notify({ env: env || "", error: normalized }), up to the transport
NotifyStart(i, ok) ==
    /\ inv[i].pc = "notify"
    /\ LET cfg == options.notify.cfg
           builder == IF cfg.emailBodyBuilderFn
                      THEN "emailBodyBuilderFn" ELSE "buildErrorEmailBody"
           env == Or(options.env, EmptyStr)
           error == inv[i].normalized
           body == NotifierBody(cfg, env, error)
           payload == EmailPayload(cfg, env, body.val)
           args == [env |-> env, error |-> error,
                    internal |-> Get(error, "internal")]
       IN  /\ (~cfg.sendEmailFn \/ body.thrown) => ok
           /\ inv' = [inv EXCEPT ![i] =
                 IF ~cfg.sendEmailFn
                 THEN [@ EXCEPT !.pc = "report",
                                !.calls = @ \o <<"notify", "notify.return">>]
                 ELSE IF body.thrown
                 THEN [@ EXCEPT !.pc = "rejected",
                                !.calls = @ \o <<"notify", builder>>,
                                !.faults = @ \cup {"builder"},
                                !.outcome = body]
                 ELSE IF ~ok
                 THEN [@ EXCEPT !.pc = "rejected",
                                !.calls = @ \o <<"notify", builder>>,
                                !.built = @ \o <<args>>,
                                !.faults = @ \cup {"builder"},
                                !.outcome = Throw(FaultError(builder))]
                 ELSE IF HasRecipients(payload)
                 THEN [@ EXCEPT !.pc = "send",
                                !.calls = @ \o <<"notify", builder>>,
                                !.built = @ \o <<args>>]
                 ELSE [@ EXCEPT !.pc = "report",
                                !.calls = @ \o <<"notify", builder, "notify.return">>,
                                !.built = @ \o <<args>>]]
    /\ UNCHANGED <<options, norm, ctor>>

\* await sendEmailFn(emailPayload)
SendEmail(i, ok) ==
    /\ inv[i].pc = "send"
    /\ LET cfg == options.notify.cfg
           env == Or(options.env, EmptyStr)
           payload == EmailPayload(cfg, env,
                          NotifierBody(cfg, env, inv[i].normalized).val)
       IN  inv' = [inv EXCEPT ![i] =
                 IF ok
                 THEN [@ EXCEPT !.pc = "report",
                                !.calls = @ \o <<"sendEmailFn", "notify.return">>,
                                !.mails = @ \o <<payload>>]
                 ELSE [@ EXCEPT !.pc = "rejected",
                                !.calls = @ \o <<"sendEmailFn">>,
                                !.mails = @ \o <<payload>>,
                                !.faults = @ \cup {"send"},
                                !.outcome = Throw(FaultError("sendEmailFn"))]]
    /\ UNCHANGED <<options, norm, ctor>>

\* A variant in which toCdsError strips the diagnostic fields from the
\* instance it is called on
ReportStripping(i) ==
    /\ inv[i].pc = "report"
    /\ inv' = [inv EXCEPT ![i] =
                  [@ EXCEPT !.pc = "resolved",
                            !.calls = @ \o <<"req.error">>,
                            !.reported = @ \o <<toCdsError(inv[i].normalized)>>,
                            !.normalized =
                                [@ EXCEPT !.props =
                                    [k \in DOMAIN @ \ {"internal", "stack"} |-> @[k]]],
                            !.outcome = Return(Undefined)]]
    /\ UNCHANGED <<options, norm, ctor>>

\* req.error(normalized.toCdsError()), and the async function returns
Report(i) ==
    /\ inv[i].pc = "report"
    /\ inv' = [inv EXCEPT ![i] =
                  [@ EXCEPT !.pc = "resolved",
                            !.calls = @ \o <<"req.error">>,
                            !.reported = @ \o <<toCdsError(inv[i].normalized)>>,
                            !.outcome = Return(Undefined)]]
    /\ UNCHANGED <<options, norm, ctor>>

OptionValues ==
    [notify : NotifyValues, cds : CdsValues, tableName : TableNameValues,
     module : ModuleValues, env : EnvValues]

Init ==
    /\ options \in OptionValues
    /\ inv = [i \in {1} |-> Idle]
    /\ norm = NormOff
    /\ ctor = CtorOff

Next ==
    \/ \E i \in DOMAIN inv, req \in Requests : Invoke(i, req)
    \/ \E i \in DOMAIN inv, val \in ReturnValues : FnReturns(i, val)
    \/ \E i \in DOMAIN inv, v \in RawValues : FnThrows(i, v)
    \/ \E i \in DOMAIN inv, ok \in BOOLEAN : LogTransaction(i, ok)
    \/ \E i \in DOMAIN inv, ok \in BOOLEAN : TxBegin(i, ok)
    \/ \E i \in DOMAIN inv, how \in {"ok", "serialize", "reject"} : TxRun(i, how)
    \/ \E i \in DOMAIN inv, ok \in BOOLEAN : TxCommit(i, ok)
    \/ \E i \in DOMAIN inv, ok \in BOOLEAN : TxFinally(i, ok)
    \/ \E i \in DOMAIN inv, ok \in BOOLEAN : NotifyStart(i, ok)
    \/ \E i \in DOMAIN inv, ok \in BOOLEAN : SendEmail(i, ok)
    \/ \E i \in DOMAIN inv : Report(i)

Spec == Init /\ [][Next]_vars

(***************************************************************************)
(* Direct calls of normalizeError: with positional arguments, as the       *)
(* function is declared, and with one options object, as it is documented  *)
(***************************************************************************)
NormalizePositional ==
    /\ norm.phase = "args"
    /\ norm' = [norm EXCEPT !.phase = "done", !.form = "positional",
                    !.result = normalizeError(norm.err, norm.module, norm.req)]
    /\ UNCHANGED <<options, inv, ctor>>

NormalizeDocumented ==
    /\ norm.phase = "args"
    /\ norm' = [norm EXCEPT !.phase = "done", !.form = "options",
                    !.result = normalizeError(
                        Obj("Object", [err |-> norm.err, req |-> norm.req,
                                       module |-> norm.module]),
                        Undefined, Undefined)]
    /\ UNCHANGED <<options, inv, ctor>>

\* normalizeError(e, module, req) for the e an earlier call returned
NormalizeAgain(module, req) ==
    /\ norm.phase = "done"
    /\ ~norm.result.thrown
    /\ norm' = [norm EXCEPT !.phase = "again", !.module2 = module,
                    !.req2 = req,
                    !.second = normalizeError(norm.result.val, module, req)]
    /\ UNCHANGED <<options, inv, ctor>>

NormInit ==
    /\ options = [notify |-> Undefined, cds |-> Undefined,
                  tableName |-> Undefined, module |-> Undefined,
                  env |-> Undefined]
    /\ inv = [i \in {1} |-> Idle]
    /\ norm \in [phase : {"args"}, err : RawValues, module : ModuleValues,
                 req : {Undefined} \cup Requests, form : {"none"},
                 result : {Return(Undefined)},
                 module2 : {Undefined}, req2 : {Undefined},
                 second : {Return(Undefined)}]
    /\ ctor = CtorOff

NormNext ==
    \/ NormalizePositional
    \/ NormalizeDocumented
    \/ \E module \in ModuleValues, req \in {Undefined} \cup Requests :
           NormalizeAgain(module, req)

SpecNorm == NormInit /\ [][NormNext]_vars

(***************************************************************************)
(* Structured errors built by application code, with the base constructor, *)
(* a variant or normalizeError, and then used: logged, alerted, reported   *)
(***************************************************************************)
\* The most method calls made on one error
MaxCalls == 2

\* The frames of an error constructed in a handler
HandlerFrames == <<"    at ", "handler", " (srv/service.js)">>

\* The parameter objects of the constructors: every field absent or given
CtorParams ==
    {Undefined} \cup
    {Obj("Object", f) : f \in
        [message : {Undefined, Lit("Email is required")},
         status : {Undefined, Num(403), Num(0)},
         code : {Undefined, Lit("MY_ERR")},
         target : {Undefined, Lit("email")},
         details : {Undefined,
                    Arr(<<Obj("Object", [message |-> Lit("Email is required"),
                                         target |-> Lit("email")])>>)},
         module : {Undefined, Lit("DSM")},
         internal : {Undefined, Obj("Object", [id |-> Num(7)]),
                     Obj("Object", [id |-> Num(7), data |-> Lit("draft"),
                                    url |-> Lit("/internal")]),
                     NativeError("Error", MsgBoom, NoProps)},
         req : {Undefined, HttpRequest}]}

CtorClasses ==
    {"CustomError", "ValidationError", "AuthorizationError",
     "BusinessLogicError"}

\* The constructor or classifier has run, with outcome r
Built(r) ==
    [ctor EXCEPT !.phase = IF r.thrown THEN "failed" ELSE "built",
                 !.result = r]

\* new CustomError(params)
NewCustomError ==
    /\ ctor.phase = "args" /\ ctor.how = "CustomError"
    /\ ctor' = Built(CustomErrorNew("CustomError", ctor.params, HandlerFrames))
    /\ UNCHANGED <<options, inv, norm>>

\* new ValidationError(params)
NewValidationError ==
    /\ ctor.phase = "args" /\ ctor.how = "ValidationError"
    /\ ctor' = Built(ValidationErrorNew(ctor.params, HandlerFrames))
    /\ UNCHANGED <<options, inv, norm>>

\* new AuthorizationError(params)
NewAuthorizationError ==
    /\ ctor.phase = "args" /\ ctor.how = "AuthorizationError"
    /\ ctor' = Built(AuthorizationErrorNew(ctor.params, HandlerFrames))
    /\ UNCHANGED <<options, inv, norm>>

\* new BusinessLogicError(params)
NewBusinessLogicError ==
    /\ ctor.phase = "args" /\ ctor.how = "BusinessLogicError"
    /\ ctor' = Built(BusinessLogicErrorNew(ctor.params, HandlerFrames))
    /\ UNCHANGED <<options, inv, norm>>

\* normalizeError(raw, module, req)
NewByNormalizeError(module, req) ==
    /\ ctor.phase = "args" /\ ctor.how = "normalizeError"
    /\ ctor' = [Built(normalizeError(ctor.params, module, req)) EXCEPT !.req = req]
    /\ UNCHANGED <<options, inv, norm>>

\* error.logError({ cds, tableName }) with every transaction call succeeding:
\* the row is built from the error's fields, which are only read
CallLogError ==
    /\ ctor.phase = "built" /\ Len(ctor.calls) < MaxCalls
    /\ ctor' = [ctor EXCEPT !.calls = @ \o <<"logError">>,
                            !.row = LogPayload(ctor.result.val)]
    /\ UNCHANGED <<options, inv, norm>>

\* error.toCdsError()
CallToCdsError ==
    /\ ctor.phase = "built" /\ Len(ctor.calls) < MaxCalls
    /\ ctor' = [ctor EXCEPT !.calls = @ \o <<"toCdsError">>,
                            !.view = toCdsError(ctor.result.val)]
    /\ UNCHANGED <<options, inv, norm>>

\* notify({ env, error }) with a notifier that has a transport, recipients
\* and a custom body builder, every call succeeding
CallNotify(env) ==
    /\ ctor.phase = "built" /\ Len(ctor.calls) < MaxCalls
    /\ LET cfg == Notifier(TRUE, TRUE, RecipientsTO, RecipientsCC).cfg
       IN  ctor' = [ctor EXCEPT
               !.calls = @ \o <<"notify">>,
               !.mail = EmailPayload(cfg, env,
                            NotifierBody(cfg, env, ctor.result.val).val)]
    /\ UNCHANGED <<options, inv, norm>>

CtorInit ==
    /\ options = [notify |-> Undefined, cds |-> Undefined,
                  tableName |-> Undefined, module |-> Undefined,
                  env |-> Undefined]
    /\ inv = [i \in {1} |-> Idle]
    /\ norm = NormOff
    /\ ctor \in
          {[CtorOff EXCEPT !.phase = "args", !.how = h, !.params = p] :
              h \in CtorClasses, p \in CtorParams}
          \cup {[CtorOff EXCEPT !.phase = "args", !.how = "normalizeError",
                                !.params = v] : v \in RawValues}

CtorNext ==
    \/ NewCustomError
    \/ NewValidationError
    \/ NewAuthorizationError
    \/ NewBusinessLogicError
    \/ \E module \in ModuleValues, req \in {Undefined} \cup Requests :
           NewByNormalizeError(module, req)
    \/ CallLogError
    \/ CallToCdsError
    \/ \E env \in {Lit("PROD")} : CallNotify(env)

SpecCtor == CtorInit /\ [][CtorNext]_vars

(***************************************************************************)
(* Concurrent invocations of one wrapped handler: each call of the async   *)
(* function has its own req, err and normalized, and the calls interleave  *)
(* at every await                                                          *)
(***************************************************************************)
\* The invocations in flight together
Invocations == {1, 2}

\* The wrapper's configurations: persistence and alerting, or alerting only
ConcOptionValues ==
    {[notify |-> Notifier(TRUE, TRUE, RecipientsTO, RecipientsCC),
      cds |-> c, tableName |-> Lit("ERRORLOGS"), module |-> Lit("DSM"),
      env |-> Lit("PROD")] : c \in CdsValues}

\* What the handler throws: a structured error, or a remote-HTTP failure
ConcRawValues ==
    {ThrownCustomError, Obj("Object", [response |-> HttpResponse(Num(404))])}

ConcInit ==
    /\ options \in ConcOptionValues
    /\ inv = [i \in Invocations |-> Idle]
    /\ norm = NormOff
    /\ ctor = CtorOff

ConcNext ==
    \/ \E i \in DOMAIN inv, req \in Requests : Invoke(i, req)
    \/ \E i \in DOMAIN inv, val \in {Lit("OK")} : FnReturns(i, val)
    \/ \E i \in DOMAIN inv, v \in ConcRawValues : FnThrows(i, v)
    \/ \E i \in DOMAIN inv, ok \in BOOLEAN : LogTransaction(i, ok)
    \/ \E i \in DOMAIN inv, ok \in BOOLEAN : TxBegin(i, ok)
    \/ \E i \in DOMAIN inv, how \in {"ok", "serialize", "reject"} : TxRun(i, how)
    \/ \E i \in DOMAIN inv, ok \in BOOLEAN : TxCommit(i, ok)
    \/ \E i \in DOMAIN inv, ok \in BOOLEAN : TxFinally(i, ok)
    \/ \E i \in DOMAIN inv, ok \in BOOLEAN : NotifyStart(i, ok)
    \/ \E i \in DOMAIN inv, ok \in BOOLEAN : SendEmail(i, ok)
    \/ \E i \in DOMAIN inv : Report(i)

SpecConc == ConcInit /\ [][ConcNext]_vars

(***************************************************************************)
(* Properties                                                              *)
(***************************************************************************)
PersistConfigured == Truthy(options.cds) /\ Truthy(options.tableName)

NotifyConfigured == Truthy(options.notify)

PersistFaults ==
    {"cds.transaction", "tx.begin", "serialize", "tx.run", "tx.commit",
     "finally.commit"}

NotifyFaults == {"builder", "send"}

\* The places of a call in an invocation's record of calls
Places(calls, name) == {k \in 1..Len(calls) : calls[k] = name}

Called(calls, name) == Places(calls, name) # {}

\* Every call of a precedes every call of b
Precedes(calls, a, b) ==
    \A j \in Places(calls, a), k \in Places(calls, b) : j < k

FiveFields == {"message", "status", "code", "target", "details"}

AgreeOnFive(a, b) == \A f \in FiveFields : Get(a, f) = Get(b, f)

\* Structured errors that agree with e on the five external fields and
\* differ in internal, stack or module
Variants(e) ==
    {Obj(e.cls, [e.props EXCEPT !["internal"] = x, !["stack"] = y,
                                !["module"] = z]) :
        x \in {Obj("Object", NoProps), Obj("Object", [secret |-> Lit("token")])},
        y \in {Lit("CustomError"), StackOf(<<"Error">>)},
        z \in {Null, Lit("DSM"), Lit("Billing")}}

\* C1: when the inner handler throws or rejects, whatever the thrown value,
\* and persistence and notification are unconfigured or succeed, the wrapped
\* handler's promise does not reject, and once it has resolved req.error has
\* been called exactly once (and never more than once before).
C1_ThrowResolvesAndReportsOnce ==
    \A i \in DOMAIN inv :
        (inv[i].fnResult.thrown /\ inv[i].faults = {}) =>
            /\ inv[i].pc # "rejected"
            /\ Len(inv[i].reported) <= 1
            /\ Cardinality(Places(inv[i].calls, "req.error")) = Len(inv[i].reported)
            /\ inv[i].pc = "resolved" =>
                   /\ Len(inv[i].reported) = 1
                   /\ inv[i].outcome = Return(Undefined)

\* C1 witness: a handler that threw null, with persistence and notification
\* configured and successful, has resolved after one req.error call.
C1_Witness ==
    \E i \in DOMAIN inv :
        /\ inv[i].fnResult = Throw(Null)
        /\ inv[i].faults = {}
        /\ inv[i].pc = "resolved"
        /\ Len(inv[i].reported) = 1
        /\ Len(inv[i].rows) = 1
        /\ Len(inv[i].mails) = 1

\* C2: every payload passed to req.error has exactly the five fields message,
\* status, code, target, details, and is the payload of every structured
\* error that agrees with the classified one on those five fields, whatever
\* its internal, stack and module.
C2_PayloadIsFiveFieldView ==
    \A i \in DOMAIN inv :
        \A k \in 1..Len(inv[i].reported) :
            /\ inv[i].reported[k].t = "object"
            /\ DOMAIN inv[i].reported[k].props = FiveFields
            /\ \A e \in Variants(inv[i].normalized) :
                   /\ AgreeOnFive(e, inv[i].normalized)
                   /\ toCdsError(e) = inv[i].reported[k]

\* C2 witness: a payload was reported for an error whose internal holds the
\* request and the thrown value.
C2_Witness ==
    \E i \in DOMAIN inv :
        /\ Len(inv[i].reported) = 1
        /\ Get(Get(inv[i].normalized, "internal"), "req") = HttpRequest
        /\ Get(inv[i].normalized, "stack") # Undefined
        /\ \E e \in Variants(inv[i].normalized) : e # inv[i].normalized

\* C3: with persistence configured, whichever step of the persistence fails
\* (cds.transaction(), tx.begin(), the insert, the first commit, the commit
\* in the finally block), the wrapped handler's promise does not reject and
\* req.error is called exactly once.
C3_PersistenceFailureAbsorbed ==
    \A i \in DOMAIN inv :
        (/\ inv[i].fnResult.thrown
         /\ PersistConfigured
         /\ inv[i].faults # {}
         /\ inv[i].faults \subseteq PersistFaults) =>
            /\ inv[i].pc # "rejected"
            /\ inv[i].pc = "resolved" => Len(inv[i].reported) = 1

\* C4: with a notifier configured, a failure of the body builder or of the
\* transport is absorbed: the wrapped handler's promise does not reject and
\* req.error is called exactly once.
C4_NotifierFailureAbsorbed ==
    \A i \in DOMAIN inv :
        (/\ inv[i].fnResult.thrown
         /\ NotifyConfigured
         /\ inv[i].faults # {}
         /\ inv[i].faults \subseteq NotifyFaults) =>
            /\ inv[i].pc # "rejected"
            /\ inv[i].pc = "resolved" => Len(inv[i].reported) = 1

\* C5: on every failing invocation the calls occur in the order classify,
\* persist, notify, report; the notifier starts only after logError has
\* returned and req.error is called only after the notifier has returned;
\* and once the invocation has ended, logError ran if and only if cds and
\* tableName are configured and the notifier ran if and only if notify is.
C5_ClassifyPersistNotifyReport ==
    \A i \in DOMAIN inv :
        inv[i].fnResult.thrown =>
            /\ Precedes(inv[i].calls, "normalizeError", "logError")
            /\ Precedes(inv[i].calls, "normalizeError", "notify")
            /\ Precedes(inv[i].calls, "normalizeError", "req.error")
            /\ Precedes(inv[i].calls, "logError.return", "notify")
            /\ Precedes(inv[i].calls, "notify.return", "req.error")
            /\ Called(inv[i].calls, "logError") => PersistConfigured
            /\ Called(inv[i].calls, "notify") =>
                   /\ NotifyConfigured
                   /\ PersistConfigured => Called(inv[i].calls, "logError.return")
            /\ (Called(inv[i].calls, "req.error") /\ NotifyConfigured) =>
                   Called(inv[i].calls, "notify.return")
            /\ inv[i].pc \in {"resolved", "rejected"} =>
                   /\ Called(inv[i].calls, "logError") <=> PersistConfigured
                   /\ Called(inv[i].calls, "notify") <=> NotifyConfigured

C7_SuccessPassesThrough ==
    \A i \in DOMAIN inv :
        (inv[i].pc = "resolved" /\ ~inv[i].fnResult.thrown) =>
            /\ inv[i].outcome = Return(inv[i].fnResult.val)
            /\ inv[i].fnArgs = <<inv[i].req>>
            /\ inv[i].calls = <<"fn">>
            /\ inv[i].normalized = Undefined
            /\ inv[i].rows = <<>>
            /\ inv[i].mails = <<>>
            /\ inv[i].errors = <<>>
            /\ inv[i].reported = <<>>

\* C7 witness: a handler returned "OK" under a wrapper with persistence and
\* a notifier configured.
C7_Witness ==
    \E i \in DOMAIN inv :
        /\ inv[i].pc = "resolved"
        /\ inv[i].fnResult = Return(Lit("OK"))
        /\ inv[i].outcome = Return(Lit("OK"))
        /\ PersistConfigured /\ NotifyConfigured

\* C8: the payload passed to req.error is the external view of the
\* classification of the thrown value itself: a thrown structured error
\* reports its own five fields, a TypeError reports RUNTIME_ERR, a value with
\* response.status s reports status s and CPI_HTTP_ERR, and the classified
\* error's module is the module configured on the wrapper.
C8_PayloadClassifiesThrownValue ==
    \A i \in DOMAIN inv :
        (inv[i].fnResult.thrown /\ Len(inv[i].reported) = 1) =>
            LET v == inv[i].fnResult.val
                c == normalizeError(v, options.module, inv[i].req)
            IN  /\ InstanceOf(v, StructuredClasses) =>
                       inv[i].reported[1] = toCdsError(v)
                /\ InstanceOf(v, {"TypeError"}) =>
                       Get(inv[i].reported[1], "code") = Lit("RUNTIME_ERR")
                /\ ~c.thrown =>
                       /\ inv[i].reported[1] = toCdsError(c.val)
                       /\ ~InstanceOf(v, StructuredClasses) =>
                              Get(inv[i].normalized, "module")
                                  = Or(options.module, Null)

\* C9: normalizeError called with one options object { err, req, module }
\* returns the structured error the classification rules assign to err, with
\* the given module and with the request snapshot in internal.
C9_DocumentedCallClassifiesErr ==
    (norm.phase = "done" /\ norm.form = "options") =>
        LET c == normalizeError(norm.err, norm.module, norm.req)
        IN  ~c.thrown =>
                /\ ~norm.result.thrown
                /\ AgreeOnFive(norm.result.val, c.val)
                /\ Get(norm.result.val, "module") = Get(c.val, "module")
                /\ (Truthy(norm.req) /\ ~InstanceOf(norm.err, StructuredClasses)) =>
                       \A k \in {"data", "user", "event", "url", "method"} :
                           Get(Get(norm.result.val, "internal"), k)
                               = RequestContext(norm.req)[k]

\* C10: normalizeError is total: for every raw error value it returns a
\* structured error whose status and code are both non-empty, and it never
\* throws.
C10_NormalizeErrorTotal ==
    (norm.phase = "done" /\ norm.form = "positional") =>
        /\ ~norm.result.thrown
        /\ InstanceOf(norm.result.val, StructuredClasses)
        /\ Truthy(Get(norm.result.val, "status"))
        /\ Truthy(Get(norm.result.val, "code"))

\* C11: normalizeError given a value that is already a structured error (the
\* base CustomError, ValidationError, AuthorizationError or
\* BusinessLogicError) returns that very value, with message, status, code,
\* module and internal unchanged, whatever module and request are passed
\* alongside; so classifying the result of a classification again returns
\* that result.
C11_StructuredPassesThrough ==
    /\ (norm.phase \in {"done", "again"} /\ norm.form = "positional"
            /\ norm.err.t = "object"
            /\ norm.err.cls \in {"CustomError", "ValidationError",
                                 "AuthorizationError", "BusinessLogicError"}) =>
           /\ norm.result = Return(norm.err)
           /\ \A f \in {"message", "status", "code", "module", "internal"} :
                  Get(norm.result.val, f) = Get(norm.err, f)
    /\ norm.phase = "again" => norm.second = norm.result

C11_Witness ==
    /\ norm.phase = "again" /\ norm.form = "positional"
    /\ InstanceOf(norm.err, {"AuthorizationError"})
    /\ norm.module = Lit("DSM") /\ norm.req = HttpRequest
    /\ norm.module2 = Undefined /\ norm.req2 = EventRequest
    /\ norm.second = Return(norm.err)
    /\ Get(norm.err, "module") = Null
    /\ Get(norm.err, "internal") = Obj("Object", NoProps)

\* The code of the first rule, in the order structured, syntax, runtime,
\* database, remote HTTP, fallback, whose test accepts v
FirstRuleCode(v) ==
    IF InstanceOf(v, StructuredClasses) THEN Get(v, "code")
    ELSE IF InstanceOf(v, {"SyntaxError"}) THEN Lit("SYNTAX_ERR")
    ELSE IF InstanceOf(v, RuntimeClasses) THEN Lit("RUNTIME_ERR")
    ELSE IF ~isHanaError(v).thrown /\ Truthy(isHanaError(v).val)
    THEN Lit("HANA_DB_ERR")
    ELSE IF ~isCpiHttpError(v).thrown /\ Truthy(isCpiHttpError(v).val)
    THEN Lit("CPI_HTTP_ERR")
    ELSE Lit("UNKNOWN_ERR")

\* v carries a database code or message marker, and a response status
DbAndHttp(v) ==
    /\ v.t = "object"
    /\ Get(v, "code").t = "string" /\ Get(v, "message").t = "string"
    /\ \/ StartsWith(Get(v, "code").s, CodeHY)
       \/ StartsWith(Get(v, "code").s, Code3A)
       \/ Includes(Get(v, "message").s, MarkerSapDbTech)
    /\ Truthy(Get(v, "response"))
    /\ Truthy(Get(Get(v, "response"), "status"))

\* The first matching rule decided the result r of classifying v
DeterminedByFirstRule(v, r) ==
    /\ Get(r, "code") = FirstRuleCode(v)
    /\ InstanceOf(v, StructuredClasses) => r = v
    /\ (DbAndHttp(v) /\ ~InstanceOf(v, ErrorClasses \ {"Error"})) =>
           /\ Get(r, "code") = Lit("HANA_DB_ERR")
           /\ Get(r, "status") = Num(500)
    /\ InstanceOf(v, {"SyntaxError"}) =>
           /\ Get(r, "code") = Lit("SYNTAX_ERR")
           /\ Get(r, "status") = Num(500)
    /\ InstanceOf(v, RuntimeClasses) =>
           /\ Get(r, "code") = Lit("RUNTIME_ERR")
           /\ Get(r, "status") = Num(500)

\* C12: classification is first-match-wins over the order structured,
\* syntax, runtime, database, remote HTTP, fallback: a value that satisfies
\* both the database test and the remote-HTTP test is HANA_DB_ERR with status
\* 500, a SyntaxError or TypeError/ReferenceError/RangeError that also carries
\* a database code or a response status is SYNTAX_ERR or RUNTIME_ERR, and for
\* every input exactly one rule, the first that matches, determines the
\* result.
C12_FirstMatchWins ==
    (norm.phase = "done" /\ norm.form = "positional") =>
        /\ ~norm.result.thrown
        /\ DeterminedByFirstRule(norm.err, norm.result.val)

\* v is matched by none of the rules before the remote-HTTP rule and has a
\* nested response object that carries a status
UnmatchedWithResponseStatus(v) ==
    /\ v.t = "object"
    /\ ~InstanceOf(v, StructuredClasses \cup {"SyntaxError"} \cup RuntimeClasses)
    /\ ~(~isHanaError(v).thrown /\ Truthy(isHanaError(v).val))
    /\ Get(v, "response").t = "object"
    /\ "status" \in DOMAIN Get(v, "response").props

\* C13: for every raw value not matched by an earlier rule that has a nested
\* response object carrying a status s, normalizeError yields status s, code
\* CPI_HTTP_ERR, a message naming s, and an internal payload whose status,
\* data and headers are the nested response's status, body and headers.
C13_RemoteHttpBranch ==
    (norm.phase = "done" /\ norm.form = "positional"
        /\ UnmatchedWithResponseStatus(norm.err)) =>
        LET response == Get(norm.err, "response")
            s == Get(response, "status")
            r == norm.result.val
        IN  /\ ~norm.result.thrown
            /\ Get(r, "status") = s
            /\ Get(r, "code") = Lit("CPI_HTTP_ERR")
            /\ Get(r, "message")
                   = Str(<<"CPI request failed with status ">> \o JsToString(s))
            /\ Get(Get(r, "internal"), "status") = s
            /\ Get(Get(r, "internal"), "data") = Get(response, "data")
            /\ Get(Get(r, "internal"), "headers") = Get(response, "headers")

\* v's code begins with "HY" or "3A", or v's message contains "SAP DBTech"
HasDatabaseMark(v) ==
    \/ /\ Get(v, "code").t = "string"
       /\ \/ StartsWith(Get(v, "code").s, CodeHY)
          \/ StartsWith(Get(v, "code").s, Code3A)
    \/ /\ Get(v, "message").t = "string"
       /\ Includes(Get(v, "message").s, MarkerSapDbTech)

\* C14: a raw value not matched by rules 1-3 is classified as a database
\* error (status 500, code HANA_DB_ERR, message "Database execution failed")
\* exactly when its code begins with "HY" or "3A" or its message contains
\* "SAP DBTech"; each condition alone suffices, also a marker-bearing message
\* on a value without code and a recognized code on a value without message.
C14_DatabaseRule ==
    (norm.phase = "done" /\ norm.form = "positional"
        /\ ~InstanceOf(norm.err,
               StructuredClasses \cup {"SyntaxError"} \cup RuntimeClasses)) =>
        LET r == norm.result.val
            database == /\ ~norm.result.thrown
                        /\ Get(r, "code") = Lit("HANA_DB_ERR")
        IN  /\ database <=> HasDatabaseMark(norm.err)
            /\ database =>
                   /\ Get(r, "status") = Num(500)
                   /\ Get(r, "message") = Lit("Database execution failed")

\* Every own property of the raw value v, its message included, is found
\* under internal with its value
RetainedUnderInternal(v, internal) ==
    /\ internal.t = "object"
    /\ v.t = "object" =>
           \A k \in DOMAIN v.props : Get(internal, k) = v.props[k]

\* C15: a SyntaxError yields status 500 and code SYNTAX_ERR; a TypeError,
\* ReferenceError or RangeError yields status 500, code RUNTIME_ERR and
\* message "Unexpected server error"; a value matched by no rule yields status
\* 500, code UNKNOWN_ERR and its own message when that is non-empty,
\* "Unknown failure" otherwise; in each of these branches the raw value, its
\* message included, is retained under internal.
C15_BranchOutputs ==
    (norm.phase = "done" /\ norm.form = "positional"
        /\ FirstRuleCode(norm.err) \in
               {Lit("SYNTAX_ERR"), Lit("RUNTIME_ERR"), Lit("UNKNOWN_ERR")}
        /\ ~InstanceOf(norm.err, StructuredClasses)) =>
        LET v == norm.err
            r == norm.result.val
        IN  /\ ~norm.result.thrown
            /\ Get(r, "status") = Num(500)
            /\ Get(r, "code") = FirstRuleCode(v)
            /\ InstanceOf(v, RuntimeClasses) =>
                   Get(r, "message") = Lit("Unexpected server error")
            /\ FirstRuleCode(v) = Lit("UNKNOWN_ERR") =>
                   Get(r, "message") =
                       (IF v.t = "object" /\ Truthy(Get(v, "message"))
                        THEN Get(v, "message") ELSE Lit("Unknown failure"))
            /\ RetainedUnderInternal(v, Get(r, "internal"))

\* The parameter p of a constructor gives the field f
Supplied(p, f) == p.t = "object" /\ Get(p, f).t # "undefined"

\* C16: every structured error, built by the base constructor, by a variant
\* or by any branch of normalizeError, and after any sequence of logError,
\* toCdsError and notify calls, has a populated status and code; with the
\* base constructor, status is the supplied status, or 500 when none is
\* supplied, and code is the supplied code, or "GENERIC_ERROR" when none is.
C16_StatusAndCodePopulated ==
    ctor.phase = "built" =>
        LET e == ctor.result.val
            p == ctor.params
        IN  /\ Truthy(Get(e, "status"))
            /\ Truthy(Get(e, "code"))
            /\ Get(e, "status").t \in {"number", "string"}
            /\ Get(e, "code").t = "string"
            /\ ctor.how = "CustomError" =>
                   /\ Get(e, "status") =
                          (IF Truthy(Get(p, "status")) THEN Get(p, "status")
                           ELSE Num(500))
                   /\ Get(e, "code") =
                          (IF Truthy(Get(p, "code")) THEN Get(p, "code")
                           ELSE Lit("GENERIC_ERROR"))

C16_Witness ==
    /\ ctor.phase = "built" /\ ctor.how = "CustomError"
    /\ ~Supplied(ctor.params, "status") /\ ~Supplied(ctor.params, "code")
    /\ Supplied(ctor.params, "message")
    /\ ctor.calls = <<"logError", "notify">>
    /\ Get(ctor.result.val, "status") = Num(500)
    /\ Get(ctor.result.val, "code") = Lit("GENERIC_ERROR")
    /\ Get(ctor.row, "status") = Num(500)

\* C17: the internal field of every constructed structured error is a
\* non-null object, and it is exactly the empty object when the error is
\* built with no caller-supplied internal data and no request, for the base
\* CustomError and for each of ValidationError, AuthorizationError and
\* BusinessLogicError.
C17_InternalNeverNull ==
    ctor.phase = "built" =>
        LET internal == Get(ctor.result.val, "internal")
        IN  /\ internal.t = "object"
            /\ (ctor.how \in CtorClasses
                    /\ ~Supplied(ctor.params, "internal")
                    /\ ~Supplied(ctor.params, "req")) =>
                   internal = Obj("Object", NoProps)

\* The parameter p gives a message and nothing else
OnlyMessage(p) ==
    /\ Supplied(p, "message")
    /\ \A f \in {"status", "code", "target", "details", "module", "internal",
                  "req"} : ~Supplied(p, f)

C19_VariantFieldsOverridable ==
    (ctor.phase = "built"
        /\ ctor.how \in {"ValidationError", "AuthorizationError",
                          "BusinessLogicError"}) =>
        LET e == ctor.result.val
            p == ctor.params
        IN  /\ \A f \in {"message", "status", "code", "target", "details",
                          "module"} :
                   Supplied(p, f) => Get(e, f) = Get(p, f)
            /\ Supplied(p, "internal") =>
                   RetainedUnderInternal(Get(p, "internal"), Get(e, "internal"))

\* C20: when no recipient list is configured (TO empty or omitted) the
\* notifier is a no-op for every { env, error }: it invokes neither the body
\* builder nor the transport function and resolves without error; the same
\* holds when no transport function is configured.
C20_NotifierNoOpWithoutRecipients ==
    \A i \in DOMAIN inv :
        (NotifyConfigured
            /\ \/ options.notify.cfg.TO = Arr(<<>>)
               \/ ~options.notify.cfg.sendEmailFn) =>
            /\ ~Called(inv[i].calls, "emailBodyBuilderFn")
            /\ ~Called(inv[i].calls, "buildErrorEmailBody")
            /\ ~Called(inv[i].calls, "sendEmailFn")
            /\ inv[i].mails = <<>>
            /\ inv[i].faults \cap NotifyFaults = {}

\* The notifier has a transport function and a non-empty TO list
CanDispatch ==
    /\ NotifyConfigured
    /\ options.notify.cfg.sendEmailFn
    /\ options.notify.cfg.TO # Arr(<<>>)

\* C22: a notifier configured with a transport and recipients but without a
\* custom body builder renders the body with the built-in formatter
\* buildErrorEmailBody and dispatches it; with a custom body builder that
\* builder is used instead and the built-in formatter is not invoked.
C22_BuiltInFormatterByDefault ==
    \A i \in DOMAIN inv :
        (CanDispatch /\ Called(inv[i].calls, "notify")) =>
            LET cfg == options.notify.cfg
                env == Or(options.env, EmptyStr)
                error == inv[i].normalized
            IN  IF cfg.emailBodyBuilderFn
                THEN /\ ~Called(inv[i].calls, "buildErrorEmailBody")
                     /\ Called(inv[i].calls, "emailBodyBuilderFn")
                     /\ \A k \in 1..Len(inv[i].mails) :
                            Get(inv[i].mails[k], "body") = Lit("<custom body>")
                ELSE /\ ~Called(inv[i].calls, "emailBodyBuilderFn")
                     /\ Called(inv[i].calls, "buildErrorEmailBody")
                     /\ Len(inv[i].built) = 1
                     /\ inv[i].pc = "rejected" => "send" \in inv[i].faults
                     /\ \A k \in 1..Len(inv[i].mails) :
                            Get(inv[i].mails[k], "body") =
                                buildErrorEmailBody(env, error,
                                    Get(error, "internal"))
                     /\ inv[i].pc \in {"report", "resolved"} =>
                            Len(inv[i].mails) = 1

\* The notifier call of invocation i has ended, by returning or by rejecting
NotifierEnded(i) ==
    /\ Called(inv[i].calls, "notify")
    /\ inv[i].pc \in {"report", "resolved", "rejected"}

\* C21: with a transport function and a non-empty TO list, each notifier
\* call makes exactly one call to the transport, never a second one and no
\* retry after a transport failure, with subject "Exception occurred in
\* {env}", the configured TO and CC, and the body returned by the body
\* builder, which is invoked once with the error and error.internal (a body
\* builder that was invoked and threw returned no body to send).
C21_ExactlyOneDispatch ==
    \A i \in DOMAIN inv :
        CanDispatch =>
            LET cfg == options.notify.cfg
                env == Or(options.env, EmptyStr)
                error == inv[i].normalized
                sends == Cardinality(Places(inv[i].calls, "sendEmailFn"))
                threw == Len(inv[i].built) = 1 /\ "builder" \in inv[i].faults
            IN  /\ sends <= 1 /\ Len(inv[i].mails) = sends
                /\ Len(inv[i].built) <= 1
                /\ (NotifierEnded(i) /\ ~threw) =>
                       /\ sends = 1
                       /\ inv[i].built =
                              <<[env |-> env, error |-> error,
                                 internal |-> Get(error, "internal")]>>
                       /\ Get(inv[i].mails[1], "subject") =
                              Str(<<"Exception occurred in ">> \o JsToString(env))
                       /\ Get(inv[i].mails[1], "to") = cfg.TO
                       /\ Get(inv[i].mails[1], "cc") = cfg.CC
                       /\ Get(inv[i].mails[1], "body") =
                              NotifierBody(cfg, env, error).val

\* How often a call was made in invocation i
Count(i, name) == Cardinality(Places(inv[i].calls, name))

\* C23: logError never propagates a failure: whichever of cds.transaction(),
\* tx.begin(), the serialization of the payload, the insert or either
\* tx.commit() fails, the promise logError returns resolves, the failure
\* being logged locally and swallowed, and no step is retried.
C23_LogErrorNeverPropagates ==
    \A i \in DOMAIN inv :
        Called(inv[i].calls, "logError") =>
            /\ inv[i].pc \in {"notify", "send", "report", "resolved", "rejected"} =>
                   /\ Called(inv[i].calls, "logError.return")
                   /\ Len(inv[i].errors) =
                          Cardinality(inv[i].faults \cap PersistFaults)
            /\ Count(i, "cds.transaction") <= 1
            /\ Count(i, "tx.begin") <= 1
            /\ Count(i, "tx.run") <= 1
            /\ Count(i, "tx.commit") <= 2

\* logError has got past its insert step with the transaction begun
BegunAndPastInsert(i) ==
    /\ Called(inv[i].calls, "tx.begin")
    /\ "tx.begin" \notin inv[i].faults
    /\ inv[i].pc \notin {"tx_begin", "tx_run"}

\* The row is the error's: six fields as they are on the error, details and
\* internal as JSON text, "{}" for an absent one, and the date and the time
RowOfError(row, e) ==
    /\ \A f \in {"message", "status", "code", "target", "module", "stack"} :
           Get(row, f) = Get(e, f)
    /\ \A f \in {"details", "internal"} :
           /\ Get(row, f).t = "string"
           /\ Get(row, f).s = IF Nullish(Get(e, f)) THEN <<"{", "}">>
                              ELSE JsonStringify(Get(e, f))
    /\ Get(row, "crtdt").t = "string"
    /\ Get(row, "crttm").t = "string"

\* What C24 says of one call, given that it makes its one insert attempt
\* whenever required holds
InsertDiscipline(i, required) ==
    /\ Count(i, "tx.run") <= 1
    /\ Len(inv[i].rows) <= Count(i, "tx.run")
    /\ required => Count(i, "tx.run") = 1
    /\ \A k \in DOMAIN inv[i].rows : RowOfError(inv[i].rows[k], inv[i].normalized)
    /\ Precedes(inv[i].calls, "tx.begin", "tx.run")
    /\ Precedes(inv[i].calls, "tx.run", "tx.commit")

PastFinally(i) ==
    /\ Called(inv[i].calls, "logError")
    /\ inv[i].pc \notin {"logError", "tx_begin", "tx_run", "tx_commit",
                         "tx_finally"}

\* C26: when the insert inside logError fails, the transaction is committed
\* all the same, tx.commit() being called after the failure was caught and
\* logged, and it is never rolled back: no path of logError calls rollback.
C26_CommitAfterFailedInsert ==
    \A i \in DOMAIN inv :
        /\ ~Called(inv[i].calls, "tx.rollback")
        /\ inv[i].tx \in {"none", "open", "committed"}
        /\ ("tx.run" \in inv[i].faults /\ PastFinally(i)) =>
               \E r \in Places(inv[i].calls, "tx.run"),
                  c \in Places(inv[i].calls, "tx.commit") :
                   /\ inv[i].calls[r + 1] = "console.error"
                   /\ r + 1 < c

\* An invocation whose insert was rejected and whose transaction was then
\* committed by the finally block
C26_Witness ==
    \E i \in DOMAIN inv :
        /\ "tx.run" \in inv[i].faults
        /\ PastFinally(i)
        /\ inv[i].tx = "committed"
        /\ Count(i, "tx.commit") = 1

\* The calls made on the transaction, in order
TxOps(calls) ==
    SelectSeq(calls, LAMBDA c : c \in {"tx.begin", "tx.run", "tx.commit",
                                       "tx.rollback"})

\* C29: on the fully successful path of logError (transaction obtained,
\* begin, insert and first commit all succeed) tx.commit() is called twice on
\* the one transaction, at the end of the try body and again in the finally
\* block; and on every path where the transaction was obtained, the last
\* call made on it is a commit.
C29_CommitTwiceOnSuccess ==
    \A i \in DOMAIN inv :
        PastFinally(i) =>
            /\ Count(i, "cds.transaction") = 1
            /\ (inv[i].faults \cap (PersistFaults \ {"finally.commit"}) = {}) =>
                   /\ TxOps(inv[i].calls) =
                          <<"tx.begin", "tx.run", "tx.commit", "tx.commit">>
                   /\ inv[i].errors = <<>>
            /\ "cds.transaction" \notin inv[i].faults =>
                   /\ TxOps(inv[i].calls) # <<>>
                   /\ TxOps(inv[i].calls)[Len(TxOps(inv[i].calls))] = "tx.commit"
            /\ "cds.transaction" \in inv[i].faults => TxOps(inv[i].calls) = <<>>

\* logError ran without any failure and has returned after two commits
C29_Witness ==
    \E i \in DOMAIN inv :
        /\ PastFinally(i)
        /\ inv[i].faults \cap PersistFaults = {}
        /\ Len(inv[i].rows) = 1
        /\ Count(i, "tx.commit") = 2
        /\ Called(inv[i].calls, "logError.return")

EightFields == FiveFields \cup {"module", "internal", "stack"}

\* C27: the pipeline does not mutate the structured error: at every point
\* after the classification, through logError, the notifier and toCdsError,
\* its message, status, code, target, details, module, internal and stack
\* are those the classification gave it; and the row persisted, the error
\* handed to the notifier and the payload reported through req.error are
\* taken from that one instance and agree on message, status, code, target
\* and details (the row holding details as its JSON text).
C27_PipelineLeavesErrorIntact ==
    \A i \in DOMAIN inv :
        inv[i].normalized # Undefined =>
            LET e == inv[i].normalized
                made == WrapperNormalize(inv[i].fnResult.val, options.module,
                                         inv[i].req).val
            IN  /\ \A f \in EightFields : Get(e, f) = Get(made, f)
                /\ \A k \in DOMAIN inv[i].rows :
                       /\ \A f \in FiveFields \ {"details"} :
                              Get(inv[i].rows[k], f) = Get(made, f)
                       /\ Get(inv[i].rows[k], "details").s =
                              JsonStringify(Or(Get(made, "details"),
                                               Obj("Object", NoProps)))
                /\ \A k \in DOMAIN inv[i].built :
                       /\ inv[i].built[k].error = made
                       /\ inv[i].built[k].internal = Get(made, "internal")
                /\ \A k \in DOMAIN inv[i].reported :
                       AgreeOnFive(inv[i].reported[k], made)

\* One failing invocation persisted, alerted and reported its error
C27_Witness ==
    \E i \in DOMAIN inv :
        /\ inv[i].pc = "resolved"
        /\ Len(inv[i].rows) = 1
        /\ Len(inv[i].built) = 1
        /\ Len(inv[i].mails) = 1
        /\ Len(inv[i].reported) = 1
        /\ Get(inv[i].normalized, "internal") # Undefined

SnapshotKeys == {"data", "user", "event", "url", "method"}

\* What the constructor reads from a request: req.data, req.user, req.event,
\* and the URL and the method of req._.req, "" without one
SnapshotValue(req, key) ==
    CASE key = "url" ->
           IF Get(req, "_") = Undefined THEN EmptyStr
           ELSE Get(Get(Get(req, "_"), "req"), "originalUrl")
      [] key = "method" ->
           IF Get(req, "_") = Undefined THEN EmptyStr
           ELSE Get(Get(Get(req, "_"), "req"), "method")
      [] OTHER -> Get(req, key)

\* C28: when a structured error is constructed with caller-supplied internal
\* data and a request context, the snapshot keys data, user, event, url and
\* method of internal are the request's, whatever the supplied internal held
\* under them, and its other keys are kept; for a remote-HTTP error
\* normalized with a request context, internal.data is the request's data
\* and not the response body, while internal.status and internal.headers
\* are the response's.
C28_RequestSnapshotWins ==
    (ctor.phase = "built") =>
        LET internal == Get(ctor.result.val, "internal")
        IN  /\ (ctor.how = "CustomError" /\ Truthy(Get(ctor.params, "req"))) =>
                   LET req == Get(ctor.params, "req")
                       supplied == Get(ctor.params, "internal")
                   IN  /\ \A k \in SnapshotKeys :
                              Get(internal, k) = SnapshotValue(req, k)
                       /\ supplied.t = "object" /\ supplied.cls = "Object" =>
                              \A k \in DOMAIN supplied.props \ SnapshotKeys :
                                  Get(internal, k) = supplied.props[k]
            /\ (/\ ctor.how = "normalizeError"
                /\ Get(ctor.result.val, "code") = Lit("CPI_HTTP_ERR")
                /\ Truthy(ctor.req)) =>
                   LET response == Get(ctor.params, "response")
                   IN  /\ Get(internal, "data") = Get(ctor.req, "data")
                       /\ Get(internal, "data") # Get(response, "data")
                       /\ Get(internal, "status") = Get(response, "status")
                       /\ Get(internal, "headers") = Get(response, "headers")
                       /\ \A k \in SnapshotKeys :
                              Get(internal, k) = SnapshotValue(ctor.req, k)

\* An error constructed with internal data holding data and url, and a
\* request: internal.data and internal.url are the request's
C28_Witness ==
    /\ ctor.phase = "built"
    /\ ctor.how = "CustomError"
    /\ Get(ctor.params, "req") = HttpRequest
    /\ Get(Get(ctor.params, "internal"), "data") = Lit("draft")
    /\ Get(Get(ctor.result.val, "internal"), "data") = Get(HttpRequest, "data")
    /\ Get(Get(ctor.result.val, "internal"), "url") = Lit("/user/create")
    /\ Get(Get(ctor.result.val, "internal"), "id") = Num(7)

\* A remote-HTTP error normalized with a request: internal.data is the
\* request's data, internal.status the response's
C28_WitnessRemoteHttp ==
    /\ ctor.phase = "built"
    /\ ctor.how = "normalizeError"
    /\ Get(ctor.result.val, "code") = Lit("CPI_HTTP_ERR")
    /\ ctor.req = EventRequest
    /\ Get(Get(ctor.result.val, "internal"), "data") = Get(EventRequest, "data")
    /\ Get(Get(ctor.result.val, "internal"), "status") = Num(404)

\* The invocation has ended after its handler threw
EndedFailing(i) ==
    inv[i].pc \in {"resolved", "rejected"} /\ inv[i].fnResult.thrown

\* What invocation i persisted, handed to the notifier and reported is the
\* error e and nothing else
OwnErrorOnly(i, e) ==
    /\ \A k \in DOMAIN inv[i].rows : inv[i].rows[k] = LogPayload(e)
    /\ \A k \in DOMAIN inv[i].built : inv[i].built[k].error = e
    /\ \A k \in DOMAIN inv[i].reported : inv[i].reported[k] = toCdsError(e)
    /\ Len(inv[i].rows) <= 1 /\ Len(inv[i].built) <= 1

\* A step is one invocation's: the other invocations and the wrapper's
\* configuration are as they were
StepOfOne ==
    /\ options' = options
    /\ \E i \in DOMAIN inv : \A j \in DOMAIN inv \ {i} : inv'[j] = inv[j]

\* C25: across concurrent invocations of one wrapped handler, interleaved at
\* every await, each failing invocation calls req.error exactly once, on its
\* own request, with the classification of its own thrown value, and
\* persists and notifies its own error only; no invocation changes another
\* one's state or the wrapper's configuration.
C25_InvocationsIndependent ==
    /\ [](\A i \in DOMAIN inv :
            /\ inv[i].pc # "idle" => inv[i].fnArgs = <<inv[i].req>>
            /\ inv[i].normalized # Undefined =>
                   OwnErrorOnly(i, normalizeError(inv[i].fnResult.val,
                                    options.module, inv[i].req).val)
            /\ EndedFailing(i) => Len(inv[i].reported) = 1)
    /\ [][StepOfOne]_vars

====
